---- MODULE Spec2Model ----
(***************************************************************************)
(* Model of custom_components/fo_weather_stations/sensor.py:               *)
(*   - wind_direction_to_friendly_name (pure function)                     *)
(*   - the XML walk and record construction inside                         *)
(*     LVWeatherData.async_update                                          *)
(*   - the Throttle decorator on LVWeatherData.async_update                *)
(*   - async_setup_platform and WeatherSensor.async_update                 *)
(*                                                                         *)
(* Encodings.                                                              *)
(*   Time is counted in seconds.                                           *)
(*   A wind direction is an integer number of hundredths of a degree       *)
(*   (348.75 degrees is 34875).                                            *)
(*   A Python value is a record [k, v]: k is "str", "float" or "none" and  *)
(*   v is the text of a str, or the repr of a float.                       *)
(*   A dict is a TLA+ function; rest.data is [set, rec]: set = FALSE is    *)
(*   Python None, set = TRUE with an empty rec is the empty dict.          *)
(***************************************************************************)
EXTENDS Integers, Sequences, FiniteSets, TLC

VARIABLES
    stations,   \* config[CONF_STATIONS]: the configured stations, in order
    feed,       \* the bodies lv.fo may answer a request with
    now,        \* wall clock (utcnow), seconds
    ticks,      \* number of clock advances so far (bounds the run)
    setupPc,    \* async_setup_platform: "start", "await", "done", "raised"
    setupIdx,   \* position of the for loop in the configured station list
    setupFetch, \* the coroutine rest.async_update() awaited by the setup
    sensors,    \* the local list `sensors` built by async_setup_platform
    registered, \* entities handed to async_add_entities
    created,    \* created[s]: LVWeatherData(hass, s) has been constructed
    data,       \* data[s]: LVWeatherData.data
    throttle,   \* throttle[s]: time of the last un-throttled call (Throttle)
    requests,   \* requests[s]: number of session.get calls issued
    sfetch,     \* sfetch[x]: the coroutine awaited by sensor x's async_update
    entity,     \* entity[x]: _state, _attributes['date'], _icon of sensor x
    ev,         \* the last operation that ran, and how it ended
    doc,        \* parser harness: the document under parse
    parsed,     \* parser harness: result of the parse
    windArg,    \* wind harness: argument
    windName    \* wind harness: result

vars == <<stations, feed, now, ticks, setupPc, setupIdx, setupFetch, sensors, registered,
          created, data, throttle, requests, sfetch, entity, ev,
          doc, parsed, windArg, windName>>

----------------------------------------------------------------------------
(* Python values *)

Str(t) == [k |-> "str", v |-> t]
Float(r) == [k |-> "float", v |-> r]
NoneVal == [k |-> "none", v |-> ""]

\* float(text): the texts float() accepts, with the repr of the result.
FloatRepr(t) ==
    CASE t = "10.5" -> "10.5"
      [] t = "87"   -> "87.0"
      [] t = "87.0" -> "87.0"
      [] t = "99.9" -> "99.9"
      [] OTHER      -> "nan"

IsNumeric(t) == t \in {"10.5", "87", "87.0", "99.9"}

----------------------------------------------------------------------------
(* wind_direction_to_friendly_name, argument in hundredths of a degree *)

\* (mutant) the boundary 11.25 left out of NNE.
wind_direction_to_friendly_name_off(argument) ==
    IF argument < 0 THEN ""
    ELSE IF 34875 <= argument \/ 1125 > argument THEN "N"
    ELSE IF 1125 < argument /\ argument < 3375 THEN "NNE"
    ELSE IF 3375 <= argument /\ argument < 5625 THEN "NE"
    ELSE IF 5625 <= argument /\ argument < 7875 THEN "ENE"
    ELSE IF 7875 <= argument /\ argument < 10125 THEN "E"
    ELSE IF 10125 <= argument /\ argument < 12375 THEN "ESE"
    ELSE IF 12375 <= argument /\ argument < 14625 THEN "SE"
    ELSE IF 14625 <= argument /\ argument < 16875 THEN "SSE"
    ELSE IF 16875 <= argument /\ argument < 19125 THEN "S"
    ELSE IF 19125 <= argument /\ argument < 21375 THEN "SSW"
    ELSE IF 21375 <= argument /\ argument < 23625 THEN "SW"
    ELSE IF 23625 <= argument /\ argument < 25875 THEN "WSW"
    ELSE IF 25875 <= argument /\ argument < 28125 THEN "W"
    ELSE IF 28125 <= argument /\ argument < 30375 THEN "WNW"
    ELSE IF 30375 <= argument /\ argument < 32625 THEN "NW"
    ELSE IF 32625 <= argument /\ argument < 34875 THEN "NNW"
    ELSE ""

wind_direction_to_friendly_name(argument) ==
    IF argument < 0 THEN ""
    ELSE IF 34875 <= argument \/ 1125 > argument THEN "N"
    ELSE IF 1125 <= argument /\ argument < 3375 THEN "NNE"
    ELSE IF 3375 <= argument /\ argument < 5625 THEN "NE"
    ELSE IF 5625 <= argument /\ argument < 7875 THEN "ENE"
    ELSE IF 7875 <= argument /\ argument < 10125 THEN "E"
    ELSE IF 10125 <= argument /\ argument < 12375 THEN "ESE"
    ELSE IF 12375 <= argument /\ argument < 14625 THEN "SE"
    ELSE IF 14625 <= argument /\ argument < 16875 THEN "SSE"
    ELSE IF 16875 <= argument /\ argument < 19125 THEN "S"
    ELSE IF 19125 <= argument /\ argument < 21375 THEN "SSW"
    ELSE IF 21375 <= argument /\ argument < 23625 THEN "SW"
    ELSE IF 23625 <= argument /\ argument < 25875 THEN "WSW"
    ELSE IF 25875 <= argument /\ argument < 28125 THEN "W"
    ELSE IF 28125 <= argument /\ argument < 30375 THEN "WNW"
    ELSE IF 30375 <= argument /\ argument < 32625 THEN "NW"
    ELSE IF 32625 <= argument /\ argument < 34875 THEN "NNW"
    ELSE ""

----------------------------------------------------------------------------
(* The spreadsheet document and the walk over it (async_update, 486-510) *)

\* A cell: whether it holds an ss:Data element, that element's ss:Type and text.
Cell(hasData, type, text) == [data |-> hasData, type |-> type, text |-> text]

\* A document: what ET.fromstring and the two find() calls meet, and the rows.
Document(xml, rows) == [xml |-> xml, rows |-> rows]

Ok(x) == [err |-> "", val |-> x]
Raise(e) == [err |-> e, val |-> <<>>]

\* The inner loop, lines 491-498: the values one row contributes.
RECURSIVE CellValues(_, _, _)
CellValues(row, i, cell_values) ==
    IF i > Len(row) THEN Ok(cell_values)
    ELSE LET cell == row[i] IN
         IF ~cell.data THEN Raise("AttributeError")
         ELSE IF cell.type = "String"
              THEN CellValues(row, i + 1, Append(cell_values, Str(cell.text)))
         ELSE IF cell.type = "Number"
              THEN IF IsNumeric(cell.text)
                   THEN CellValues(row, i + 1,
                            Append(cell_values, Float(FloatRepr(cell.text))))
                   ELSE Raise("ValueError")
         ELSE CellValues(row, i + 1, cell_values)

\* The outer loop, lines 489-499.
RECURSIVE RowValues(_, _, _)
RowValues(rows, i, row_values) ==
    IF i > Len(rows) THEN Ok(row_values)
    ELSE LET r == CellValues(rows[i], 1, <<>>) IN
         IF r.err # "" THEN r
         ELSE RowValues(rows, i + 1, Append(row_values, r.val))

\* Lines 501-508: pair name_row with value_row by position (idx is 1-based here).
RECURSIVE BuildData(_, _, _, _)
BuildData(name_row, value_row, idx, acc) ==
    IF idx > Len(name_row) THEN Ok(acc)
    ELSE LET cell == name_row[idx] IN
         IF cell # Str("undef")
         THEN IF idx > Len(value_row) THEN Raise("IndexError")
              ELSE BuildData(name_row, value_row, idx + 1,
                             (cell :> value_row[idx]) @@ acc)
         ELSE BuildData(name_row, value_row, idx + 1, acc)

\* Lines 486-508: from the bytes read to the dict `data`, or the exception raised.
Parse(d) ==
    IF d.xml = "malformed" THEN Raise("ParseError")
    ELSE IF d.xml \in {"no_worksheet", "no_table"} THEN Raise("AttributeError")
    ELSE LET rv == RowValues(d.rows, 1, <<>>) IN
         IF rv.err # "" THEN rv
         ELSE IF Len(rv.val) < 2 THEN Raise("IndexError")
         ELSE BuildData(rv.val[1], rv.val[2], 1, <<>>)


----------------------------------------------------------------------------
(* Program constants and the bounds of the model *)

\* MIN_TIME_BETWEEN_UPDATES = timedelta(minutes=5), in seconds.
MIN_TIME_BETWEEN_UPDATES == 300

\* async_timeout.timeout(10), in seconds.
RequestTimeout == 10

\* The clock advances at most this many times in a run.
MaxTicks == 2

\* throttle[1] of a Throttle that never let a call through (None).
NeverCalled == -1

\* Keys of LV_STATIONS a configuration may name (two of the 25).
Stations == {"lv_kambsdalur", "lv_hogareyn"}

\* data_field of the sensors async_setup_platform creates for a station.  The
\* source creates nine per station, which differ in data_field alone; two of
\* them are modelled: ('temp', 'temp2') and ('precipRate', 'rain').
SensorFields == {"temp2", "rain"}

AllSensors == Stations \X SensorFields

\* the amounts by which the clock advances between two steps of the program
TickSteps == {RequestTimeout, MIN_TIME_BETWEEN_UPDATES,
              MIN_TIME_BETWEEN_UPDATES + RequestTimeout}

----------------------------------------------------------------------------
(* Feed documents served in the runs of the integration *)

S(t) == Cell(TRUE, "String", t)
N(t) == Cell(TRUE, "Number", t)

DocFull == Document("ok",
    << <<S("time"), S("temp2"), S("undef"), S("rain")>>,
       <<S("12:00"), N("10.5"), N("99.9"), N("87")>> >>)
DocNoRain == Document("ok",
    << <<S("temp2"), S("undef")>>, <<N("99.9"), N("10.5")>> >>)
DocAllUndef == Document("ok", << <<S("undef")>>, <<N("10.5")>> >>)
DocHeaderOnly == Document("ok", << <<S("temp2"), S("rain")>> >>)
DocBadNumber == Document("ok",
    << <<S("temp2")>>, <<N("n/a")>> >>)
DocShortValues == Document("ok",
    << <<S("temp2"), S("rain")>>, <<N("10.5")>> >>)
DocNoDataCell == Document("ok",
    << <<S("temp2")>>, <<Cell(FALSE, "", "")>> >>)
DocMalformed == Document("malformed", <<>>)
DocNoWorksheet == Document("no_worksheet", <<>>)
DocNoTable == Document("no_table", <<>>)
\* content.read raises while the body is read (line 484).
DocReadError == Document("read_error", <<>>)

Bodies == {DocFull, DocNoRain, DocAllUndef, DocHeaderOnly, DocBadNumber,
           DocShortValues, DocNoDataCell, DocMalformed, DocNoWorksheet,
           DocNoTable, DocReadError}

----------------------------------------------------------------------------
(* LVWeatherData *)

NoneData == [set |-> FALSE, rec |-> <<>>]
Dict(rec) == [set |-> TRUE, rec |-> rec]

\* Python truth value of rest.data: None and the empty dict are false.
Truthy(d) == d.set /\ DOMAIN d.rec # {}

\* (mutant) a Throttle that forgets its timestamp when the attempt before the
\* call ended with an exception, and lets that call through.
ThrottleAllowsAfterFailure(last, t) ==
    last = NeverCalled \/ t - last > MIN_TIME_BETWEEN_UPDATES \/ ev.raised

\* @Throttle(MIN_TIME_BETWEEN_UPDATES) on async_update (homeassistant.util):
\* the wrapper is synchronous.  It lets the call through when no call went
\* through before (throttle[1] is None) or when utcnow() - throttle[1] >
\* min_time; it then calls the method, which for an async method only creates
\* the coroutine, sets throttle[1] = utcnow() and returns the coroutine.  A
\* call it does not let through gets a stand-in coroutine that returns None.
\* The timestamp is thus the time of the call, whatever becomes of the fetch,
\* and nothing makes a throttled caller wait for a fetch in flight.

ThrottleAllows(last, t) ==
    last = NeverCalled \/ t - last > MIN_TIME_BETWEEN_UPDATES

\* Lines 471-481: what the try block leaves in the local weather_data.  Every
\* exception it can raise is caught and logged, and control goes on to 482.
\*   outcome "response": session.get returned a response
\*   outcome "none":     session.get returned None (ValueError, caught)
\*   outcome "timeout", "client_error": raised before the assignment (caught)
TryRequest(outcome) ==
    CASE outcome = "response" -> "response"
      [] outcome = "none"     -> "None"
      [] OTHER                -> "unbound"

\* (mutant) self.data is reset before the body is read and parsed.
AsyncUpdateTailClearing(weather_data, body, old) ==
    IF weather_data = "unbound" THEN [err |-> "UnboundLocalError", data |-> NoneData]
    ELSE IF weather_data = "None" THEN [err |-> "AttributeError", data |-> NoneData]
    ELSE IF body.xml = "read_error" THEN [err |-> "ClientPayloadError", data |-> NoneData]
    ELSE LET p == Parse(body) IN
         IF p.err # "" THEN [err |-> p.err, data |-> NoneData]
         ELSE [err |-> "", data |-> Dict(p.val)]

\* Lines 482-510 on the local weather_data and the body the server sends:
\* the exception raised, if any, and the value of self.data afterwards.
\* weather_data unbound: line 483 raises UnboundLocalError; None: line 483
\* raises AttributeError; self.data is assigned last (line 510).
AsyncUpdateTail(weather_data, body, old) ==
    IF weather_data = "unbound" THEN [err |-> "UnboundLocalError", data |-> old]
    ELSE IF weather_data = "None" THEN [err |-> "AttributeError", data |-> old]
    ELSE IF body.xml = "read_error" THEN [err |-> "ClientPayloadError", data |-> old]
    ELSE LET p == Parse(body) IN
         IF p.err # "" THEN [err |-> p.err, data |-> old]
         ELSE [err |-> "", data |-> Dict(p.val)]

\* A coroutine of LVWeatherData.async_update: where it is suspended ("get":
\* line 473, under the timeout that started at `start`; "read": line 484).
NoFetch == [stage |-> "none", start |-> 0]
Fetching(t) == [stage |-> "get", start |-> t]
Reading == [stage |-> "read", start |-> 0]

----------------------------------------------------------------------------
(* WeatherSensor *)

\* (mutant) a KeyError keeps the old state in place of the default None.
CfgExpandValueStale(d, field, old) ==
    IF Str(field) \in DOMAIN d.rec THEN d.rec[Str(field)] ELSE old

\* WeatherCurrentConditionsSensorConfig.value through _cfg_expand("value"):
\* wu.data[field], and the default None when the lookup raises KeyError.
CfgExpandValue(d, field, old) ==
    IF Str(field) \in DOMAIN d.rec THEN d.rec[Str(field)] ELSE NoneVal

\* _update_attrs: _attributes['date'] = wu.data['time']; a KeyError is caught
\* and the attribute keeps what it held.
UpdateAttrs(d, old) ==
    IF Str("time") \in DOMAIN d.rec THEN d.rec[Str("time")] ELSE old

\* Lines 435-445 of WeatherSensor.async_update, after the await: the new
\* (_state, _attributes['date'], _icon set) of the sensor.
Project(d, field, old) ==
    IF ~Truthy(d) THEN old
    ELSE [state |-> CfgExpandValue(d, field, old.state),
          date  |-> UpdateAttrs(d, old.date),
          icon  |-> TRUE]

NewSensor == [state |-> NoneVal, date |-> NoneVal, icon |-> FALSE]


----------------------------------------------------------------------------
(* The integration: async_setup_platform, the sensors' updates, the clock *)

Setup == <<"setup", "">>

\* The last operation: who ran it, on which station, whether an exception
\* left it towards its caller (err is the exception's name, "" for none), the
\* session.get calls it issued, and the value of the local weather_data with
\* which the coroutine it resumed has entered line 482 ("n/a": it has not).
Event(op, who, s, err, issued, wd) ==
    [op |-> op, who |-> who, station |-> s, raised |-> (err # ""),
     issued |-> issued, weather_data |-> wd]

\* Fetches of station s that have started and not yet resolved.
InFlight(s) ==
    {x \in AllSensors : x[1] = s /\ sfetch[x].stage # "none"}
      \cup (IF setupFetch.stage # "none" /\ stations[setupIdx] = s
            THEN {Setup} ELSE {})

harness == <<doc, parsed, windArg, windName>>

InitWith(cfg, bodies) ==
    /\ stations = cfg
    /\ feed = bodies
    /\ now = 0
    /\ ticks = 0
    /\ setupPc = "start"
    /\ setupIdx = 0
    /\ setupFetch = NoFetch
    /\ sensors = {}
    /\ registered = {}
    /\ created = [s \in Stations |-> FALSE]
    /\ data = [s \in Stations |-> NoneData]
    /\ throttle = [s \in Stations |-> NeverCalled]
    /\ requests = [s \in Stations |-> 0]
    /\ sfetch = [x \in AllSensors |-> NoFetch]
    /\ entity = [x \in AllSensors |-> NewSensor]
    /\ ev = Event("init", Setup, "", "", 0, "n/a")

\* The harnesses of the two pure functions, at rest.
ParseIdle == doc = Document("ok", <<>>) /\ parsed = Raise("pending")
WindIdle == windArg = 0 /\ windName = "pending"

\* Lines 310-327 from the top of iteration j of the for loop up to the next
\* await: LVWeatherData(hass, ...) and rest.async_update() up to session.get,
\* or, past the last station, async_add_entities(sensors, True).  The Throttle
\* of a fresh LVWeatherData has let no call through (throttle[1] is None), so
\* the call is forced and the request is issued.
SetupContinue(j, sens) ==
    /\ sensors' = sens
    /\ setupIdx' = j
    /\ IF j > Len(stations)
       THEN /\ registered' = sens
            /\ setupPc' = "done"
            /\ setupFetch' = NoFetch
            /\ UNCHANGED <<created, throttle, requests>>
       ELSE LET s == stations[j] IN
            /\ created' = [created EXCEPT ![s] = TRUE]
            /\ throttle' = [throttle EXCEPT ![s] = now]
            /\ requests' = [requests EXCEPT ![s] = @ + 1]
            /\ setupFetch' = Fetching(now)
            /\ setupPc' = "await"
            /\ UNCHANGED registered

\* async_setup_platform is called: lines 299-315 up to the first await.
SetupStart ==
    /\ setupPc = "start"
    /\ SetupContinue(1, {})
    /\ ev' = Event("setup_call", Setup, stations[1], "", 1, "n/a")
    /\ UNCHANGED <<stations, feed, now, ticks, data, sfetch, entity, harness>>

\* session.get returns a response to the setup's fetch: lines 473-484, control
\* enters line 482 with weather_data bound to the response and the coroutine
\* suspends at the first content.read of line 484.
SetupGetResponds ==
    /\ setupPc = "await"
    /\ setupFetch.stage = "get"
    /\ now - setupFetch.start < RequestTimeout
    /\ setupFetch' = Reading
    /\ ev' = Event("get_ok", Setup, stations[setupIdx], "", 0, "response")
    /\ UNCHANGED <<stations, feed, now, ticks, setupPc, setupIdx, sensors, registered, created,
                   data, throttle, requests, sfetch, entity, harness>>

\* What may end the await of line 473 at time t for a request started at t0.
GetOutcomes(t0, t) ==
    {"client_error", "none"} \cup
    (IF t - t0 >= RequestTimeout THEN {"timeout"} ELSE {})

\* The setup's request fails: lines 474-483, and the exception of line 483
\* leaves async_setup_platform.
SetupGetFails(outcome) ==
    /\ setupPc = "await"
    /\ setupFetch.stage = "get"
    /\ outcome \in GetOutcomes(setupFetch.start, now)
    /\ LET s == stations[setupIdx]
           wd == TryRequest(outcome)
           r == AsyncUpdateTail(wd, DocReadError, data[s])
       IN /\ data' = [data EXCEPT ![s] = r.data]
          /\ ev' = Event("get_failed", Setup, s, r.err, 0, wd)
    /\ setupPc' = "raised"
    /\ setupFetch' = NoFetch
    /\ UNCHANGED <<stations, feed, now, ticks, setupIdx, sensors, registered, created,
                   throttle, requests, sfetch, entity, harness>>

\* The body of the setup's response is read to its end: lines 483-510, then
\* lines 316-325 and the next iteration of the loop up to its await.
SetupBody(body) ==
    /\ setupPc = "await"
    /\ setupFetch.stage = "read"
    /\ LET s == stations[setupIdx]
           r == AsyncUpdateTail("response", body, data[s])
       IN /\ data' = [data EXCEPT ![s] = r.data]
          /\ ev' = Event("body", Setup, s, r.err,
                         IF r.err = "" /\ setupIdx < Len(stations)
                         THEN 1 ELSE 0, "response")
          /\ IF r.err = ""
             THEN SetupContinue(setupIdx + 1,
                                sensors \cup {<<s, f>> : f \in SensorFields})
             ELSE /\ setupPc' = "raised"
                  /\ setupFetch' = NoFetch
                  /\ UNCHANGED <<setupIdx, sensors, registered, created,
                                 throttle, requests>>
    /\ UNCHANGED <<stations, feed, now, ticks, sfetch, entity, harness>>

\* WeatherSensor.async_update of a registered sensor, its call of
\* rest.async_update() let through by the throttle: up to session.get.
SensorUpdateFetch(x) ==
    /\ x \in registered
    /\ sfetch[x].stage = "none"
    /\ ThrottleAllows(throttle[x[1]], now)
    /\ throttle' = [throttle EXCEPT ![x[1]] = now]
    /\ requests' = [requests EXCEPT ![x[1]] = @ + 1]
    /\ sfetch' = [sfetch EXCEPT ![x] = Fetching(now)]
    /\ ev' = Event("sensor_call", x, x[1], "", 1, "n/a")
    /\ UNCHANGED <<stations, feed, now, ticks, setupPc, setupIdx, setupFetch, sensors,
                   registered, created, data, entity, harness>>

\* WeatherSensor.async_update of a registered sensor, its call of
\* rest.async_update() throttled: the stand-in coroutine returns None at once
\* and lines 435-445 run on rest.data as it is.
SensorUpdateThrottled(x) ==
    /\ x \in registered
    /\ sfetch[x].stage = "none"
    /\ ~ThrottleAllows(throttle[x[1]], now)
    /\ entity' = [entity EXCEPT ![x] = Project(data[x[1]], x[2], @)]
    /\ ev' = Event("throttled", x, x[1], "", 0, "n/a")
    /\ UNCHANGED <<stations, feed, now, ticks, setupPc, setupIdx, setupFetch, sensors,
                   registered, created, data, throttle, requests, sfetch,
                   harness>>

\* session.get returns a response to a sensor's fetch: lines 473-484, as for
\* the setup's.
SensorGetResponds(x) ==
    /\ sfetch[x].stage = "get"
    /\ now - sfetch[x].start < RequestTimeout
    /\ sfetch' = [sfetch EXCEPT ![x] = Reading]
    /\ ev' = Event("get_ok", x, x[1], "", 0, "response")
    /\ UNCHANGED <<stations, feed, now, ticks, setupPc, setupIdx, setupFetch, sensors,
                   registered, created, data, throttle, requests, entity,
                   harness>>

\* A sensor's request fails: lines 474-483; the exception of line 483 leaves
\* WeatherSensor.async_update at line 433.
SensorGetFails(x, outcome) ==
    /\ sfetch[x].stage = "get"
    /\ outcome \in GetOutcomes(sfetch[x].start, now)
    /\ LET wd == TryRequest(outcome)
           r == AsyncUpdateTail(wd, DocReadError, data[x[1]])
       IN /\ data' = [data EXCEPT ![x[1]] = r.data]
          /\ ev' = Event("get_failed", x, x[1], r.err, 0, wd)
    /\ sfetch' = [sfetch EXCEPT ![x] = NoFetch]
    /\ UNCHANGED <<stations, feed, now, ticks, setupPc, setupIdx, setupFetch, sensors,
                   registered, created, throttle, requests, entity, harness>>

\* The body of a sensor's response is read to its end: lines 483-510, then
\* lines 435-445 of WeatherSensor.async_update, or the exception leaves it.
SensorBody(x, body) ==
    /\ sfetch[x].stage = "read"
    /\ LET r == AsyncUpdateTail("response", body, data[x[1]])
       IN /\ data' = [data EXCEPT ![x[1]] = r.data]
          /\ ev' = Event("body", x, x[1], r.err, 0, "response")
          /\ entity' = IF r.err = ""
                       THEN [entity EXCEPT ![x] = Project(r.data, x[2], @)]
                       ELSE entity
    /\ sfetch' = [sfetch EXCEPT ![x] = NoFetch]
    /\ UNCHANGED <<stations, feed, now, ticks, setupPc, setupIdx, setupFetch, sensors,
                   registered, created, throttle, requests, harness>>

\* The requests that session.get is awaiting, with the time each started.
PendingGets ==
    {sfetch[x].start : x \in {y \in AllSensors : sfetch[y].stage = "get"}}
      \cup (IF setupFetch.stage = "get" THEN {setupFetch.start} ELSE {})

\* Time passes; it does not pass the deadline of a pending request, at which
\* async_timeout cancels the await.
Tick(d) ==
    /\ ticks < MaxTicks
    /\ \A t0 \in PendingGets : now + d - t0 <= RequestTimeout
    /\ now' = now + d
    /\ ticks' = ticks + 1
    /\ ev' = Event("tick", Setup, "", "", 0, "n/a")
    /\ UNCHANGED <<stations, feed, setupPc, setupIdx, setupFetch, sensors, registered,
                   created, data, throttle, requests, sfetch, entity, harness>>

Next ==
    \/ SetupStart
    \/ SetupGetResponds
    \/ \E o \in {"timeout", "client_error", "none"} : SetupGetFails(o)
    \/ \E b \in feed : SetupBody(b)
    \/ \E x \in AllSensors : SensorUpdateFetch(x)
    \/ \E x \in AllSensors : SensorUpdateThrottled(x)
    \/ \E x \in AllSensors : SensorGetResponds(x)
    \/ \E x \in AllSensors, o \in {"timeout", "client_error", "none"} :
          SensorGetFails(x, o)
    \/ \E x \in AllSensors, b \in feed : SensorBody(x, b)
    \/ \E d \in TickSteps : Tick(d)

\* A configuration naming one station, the feed answering with any of Bodies.
Init == InitWith(<<"lv_kambsdalur">>, Bodies) /\ ParseIdle /\ WindIdle

Spec == Init /\ [][Next]_vars

\* A configuration naming two stations, the feed answering with a full
\* document, a malformed one or a broken transfer.
InitStations ==
    /\ InitWith(<<"lv_kambsdalur", "lv_hogareyn">>,
                {DocFull, DocMalformed, DocReadError})
    /\ ParseIdle
    /\ WindIdle

SpecStations == InitStations /\ [][Next]_vars


----------------------------------------------------------------------------
(* The parse of lines 486-508 applied to every small document *)

\* Bounds on the documents.
MaxRows == 2
MaxCells == 3

\* The cells a row is made of: String and Number cells, a Number cell whose
\* text is no number, a cell of another type, a cell without ss:Data.
CellAlphabet ==
    {S("temp2"), S("hum"), S("undef"), N("10.5"), N("87"), N("n/a"),
     Cell(TRUE, "Boolean", "1"), Cell(FALSE, "", "")}

SeqsUpTo(A, n) == UNION {[1..k -> A] : k \in 0..n}

ParseDocs ==
    {Document("ok", rows) : rows \in SeqsUpTo(SeqsUpTo(CellAlphabet, MaxCells), MaxRows)}
      \cup {Document(x, <<>>) : x \in {"malformed", "no_worksheet", "no_table"}}

InitParse ==
    /\ InitWith(<<"lv_kambsdalur">>, Bodies)
    /\ doc \in ParseDocs
    /\ parsed = Raise("pending")
    /\ WindIdle

ParseStep ==
    /\ parsed = Raise("pending")
    /\ parsed' = Parse(doc)
    /\ UNCHANGED <<stations, feed, now, ticks, setupPc, setupIdx, setupFetch,
                   sensors, registered, created, data, throttle, requests,
                   sfetch, entity, ev, doc, windArg, windName>>

SpecParse == InitParse /\ [][ParseStep]_vars

----------------------------------------------------------------------------
(* wind_direction_to_friendly_name applied to every direction in range *)

\* Bounds on the argument, in hundredths of a degree: -MaxBelowZero..MaxDirection.
MaxBelowZero == 200
MaxDirection == 36100

InitWind ==
    /\ InitWith(<<"lv_kambsdalur">>, Bodies)
    /\ ParseIdle
    /\ windArg \in (0 - MaxBelowZero)..MaxDirection
    /\ windName = "pending"

WindStep ==
    /\ windName = "pending"
    /\ windName' = wind_direction_to_friendly_name(windArg)
    /\ UNCHANGED <<stations, feed, now, ticks, setupPc, setupIdx, setupFetch,
                   sensors, registered, created, data, throttle, requests,
                   sfetch, entity, ev, doc, parsed, windArg>>

SpecWind == InitWind /\ [][WindStep]_vars


----------------------------------------------------------------------------
(* Claims *)

\* The sensor update that just ran reached line 435 of
\* WeatherSensor.async_update (its await of rest.async_update() returned).
Projected == (ev.op = "throttled") \/ (ev.op = "body" /\ ev.who # Setup /\ ~ev.raised)

\* A call of async_update on behalf of a sensor has just been made.
SensorCalls(s) ==
    ev'.op \in {"sensor_call", "throttled"} /\ ev'.station = s

\* C1: for one station at most one request is in flight at any time, whatever
\* the callers do while a fetch has started and not resolved.
C1_AtMostOneInFlight ==
    \A s \in Stations : Cardinality(InFlight(s)) <= 1

\* C2: a caller that invokes async_update while a fetch of its station is in
\* flight does not return before that fetch resolves.
C2_CallerWaitsForFetch ==
    ~(ev.op = "throttled" /\ InFlight(ev.station) # {})

\* C3: when a fetch or parse attempt fails, the stored record is left as it
\* was and the failure leaves async_update as an exception to the caller that
\* triggered the attempt: async_setup_platform ends with it, a sensor's
\* update ends with it before line 435 (the sensor is left as it was).  A
\* failed request (timeout, transport error, no response) always ends so.
C3_FailureKeepsRecordAndRaises ==
    [][/\ (ev'.op = "get_failed") => ev'.raised
       /\ ev'.raised =>
            /\ data' = data
            /\ ev'.op \in {"get_failed", "body"}
            /\ (ev'.who = Setup) => (setupPc' = "raised")
            /\ (ev'.who # Setup) =>
                  (entity' = entity /\ sfetch'[ev'.who].stage = "none")]_vars

\* C3 witness: a station holds a record and an attempt to refresh it failed
\* while parsing the body.
C3_Witness ==
    /\ ev.op = "body"
    /\ ev.raised
    /\ ev.who # Setup
    /\ Truthy(data[ev.station])

\* C4: two calls of async_update for one station, the second made within
\* MIN_TIME_BETWEEN_UPDATES of the first, return the same record.
\*   - The second call issues no request and leaves the stored record, the
\*     throttle's timestamp and the other sensors unchanged.
\*   - The record the second call has just returned is the record the first
\*     call returns: when the first call's fetch ends by storing a record
\*     right after the second call returned, the stored record is the one
\*     the second call read.  With requests[s] = 2 the setup's call and one
\*     sensor's call were let through, so the fetch in flight is the first
\*     call's, the one that opened the window.
C4_TwoCallsReturnSameRecord ==
    [][\A s \in Stations :
          /\ (/\ SensorCalls(s)
              /\ throttle[s] # NeverCalled
              /\ now - throttle[s] <= MIN_TIME_BETWEEN_UPDATES)
                => /\ requests' = requests
                   /\ data' = data
                   /\ throttle' = throttle
                   /\ ev'.issued = 0
                   /\ \A z \in AllSensors \ {ev'.who} : entity'[z] = entity[z]
          /\ (/\ ev.op = "throttled"
              /\ ev.station = s
              /\ requests[s] = 2
              /\ InFlight(s) # {}
              /\ ev'.op = "body"
              /\ ev'.station = s
              /\ ~ev'.raised)
                => data'[s] = data[s]]_vars

\* C5: when the request fails, control never reaches the stage
\* that reads the response body with an undefined response.
C5_NoBodyReadWithoutResponse ==
    ev.weather_data \in {"n/a", "response"}


\* The value a cell of the header or value row stands for: a Number cell the
\* float of its text, any other cell its text.
CellValue(c) == IF c.type = "Number" THEN Float(FloatRepr(c.text)) ELSE Str(c.text)

\* The document under parse is one the claims C6 and C7 speak of: well-formed,
\* with its worksheet and table, at least two rows, every cell carrying an
\* ss:Data element whose text fits its type.
ValidDoc ==
    /\ doc.xml = "ok"
    /\ Len(doc.rows) >= 2
    /\ \A r \in 1..Len(doc.rows) : \A i \in 1..Len(doc.rows[r]) :
          /\ doc.rows[r][i].data
          /\ doc.rows[r][i].type = "Number" => IsNumeric(doc.rows[r][i].text)

\* C6 (as stated, on the documents where pairing by position is well defined:
\* header and value rows of the same number of cells, no header value twice):
\* whatever the type tags of its cells, the parse of a valid document stores a
\* record whose keys are the header values other than 'undef', each mapped to
\* the value cell at its position.
C6_RecordPairsHeaderWithValues ==
    (/\ parsed # Raise("pending")
     /\ ValidDoc
     /\ Len(doc.rows[1]) = Len(doc.rows[2])
     /\ \A i, j \in 1..Len(doc.rows[1]) :
           CellValue(doc.rows[1][i]) = CellValue(doc.rows[1][j]) => i = j)
      => /\ parsed.err = ""
         /\ DOMAIN parsed.val =
              {CellValue(doc.rows[1][i]) : i \in 1..Len(doc.rows[1])} \ {Str("undef")}
         /\ \A i \in 1..Len(doc.rows[1]) :
              CellValue(doc.rows[1][i]) # Str("undef") =>
                 parsed.val[CellValue(doc.rows[1][i])] = CellValue(doc.rows[2][i])

\* The number of values a row contributes to row_values: its String and
\* Number cells.
Contributes(row) ==
    Cardinality({i \in 1..Len(row) : row[i].type \in {"String", "Number"}})

\* C7 (as stated): the parse fails and stores no record whenever the header
\* row and the value row contribute different numbers of cells.
C7_LengthMismatchFails ==
    (/\ parsed # Raise("pending")
     /\ ValidDoc
     /\ Contributes(doc.rows[1]) # Contributes(doc.rows[2]))
      => parsed.err # ""

\* C8 (as stated): a sensor update that reaches the projection with a record
\* stored ends with no value when its field is absent from the record, and
\* with record[field] when it is present.
C8_ProjectionPerField ==
    \A x \in AllSensors :
       (Projected /\ ev.who = x /\ data[x[1]].set)
         => entity[x].state =
               IF Str(x[2]) \in DOMAIN data[x[1]].rec
               THEN data[x[1]].rec[Str(x[2])] ELSE NoneVal

\* C8 (amended): a sensor update that reaches the projection with a record
\* that is not empty ends with no value when its field is absent from the
\* record and with record[field] when it is present; with no record or an
\* empty one it leaves the sensor as it was.  The projection changes no other
\* sensor and, the call being throttled, leaves the record as it is.
C8_ProjectionPerFieldNonEmpty ==
    [][\A x \in AllSensors :
          (Projected' /\ ev'.who = x)
            => /\ LET d == data'[x[1]] IN
                  IF d.set /\ DOMAIN d.rec # {}
                  THEN entity'[x].state =
                         IF Str(x[2]) \in DOMAIN d.rec
                         THEN d.rec[Str(x[2])] ELSE NoneVal
                  ELSE entity'[x] = entity[x]
               /\ \A y \in AllSensors \ {x} : entity'[y] = entity[y]
               /\ (ev'.op = "throttled") => (data' = data)]_vars

\* C8 witness: of two sensors that read the same record, the one whose field
\* is absent has just ended its update with no value, having held one before,
\* and the other holds the value of its field.
C8_Witness ==
    /\ Projected
    /\ ev.who = <<"lv_kambsdalur", "rain">>
    /\ data["lv_kambsdalur"] = Dict(Parse(DocNoRain).val)
    /\ entity[<<"lv_kambsdalur", "rain">>].state = NoneVal
    /\ entity[<<"lv_kambsdalur", "rain">>].date # NoneVal
    /\ entity[<<"lv_kambsdalur", "temp2">>].state = Float("99.9")

\* The sixteen compass points, clockwise from north.
CompassPoints ==
    <<"N", "NNE", "NE", "ENE", "E", "ESE", "SE", "SSE",
      "S", "SSW", "SW", "WSW", "W", "WNW", "NW", "NNW">>

\* C9: over [0, 360) the name is the compass point of the 22.5-degree bucket
\* the direction falls in, the buckets being centred on the points, each
\* boundary k*22.5 + 11.25 belonging to the bucket above it and N covering
\* [348.75, 360) and [0, 11.25); below 0 the name is empty.
C9_SixteenBuckets ==
    windName # "pending" =>
       /\ windArg < 0 => windName = ""
       /\ (0 <= windArg /\ windArg < 36000) =>
             windName = CompassPoints[(((windArg + 1125) \div 2250) % 16) + 1]

\* C9 witness: the boundary 348.75 has been named, and belongs to N.
C9_Witness ==
    windArg = 34875 /\ windName = "N"

\* C10 (as stated): when async_setup_platform has ended, the failure of one
\* station's first fetch has not kept any other configured station from being
\* fetched and its sensors from being registered.
C10_SetupIsolatesStations ==
    setupPc \in {"done", "raised"} =>
       \A i \in 1..Len(stations) :
          (setupPc = "raised" /\ i = setupIdx)
            \/ (/\ requests[stations[i]] > 0
                /\ \A f \in SensorFields : <<stations[i], f>> \in registered)

\* C11 (as stated): the throttle's timestamp is the time of the last fetch
\* that stored a record and a failed attempt does not count, so the call of
\* async_update that follows a failed attempt of its station is let through
\* and issues a new request.
C11_CallAfterFailureFetches ==
    [][\A s \in Stations :
          (/\ ev.op \in {"get_failed", "body"}
           /\ ev.raised
           /\ ev.station = s
           /\ SensorCalls(s))
             => /\ ev'.op = "sensor_call"
                /\ requests'[s] = requests[s] + 1]_vars

\* C11 (amended): the throttle's timestamp is the time of the last call of
\* async_update that was let through, that is the time the last attempt
\* began: it changes only in a step that issues a request for the station,
\* and then to the current time; the end of an attempt, whether it stored a
\* record or failed, leaves it unchanged.  The call that follows a failed
\* attempt is therefore let through, and issues a request, exactly when more
\* than MIN_TIME_BETWEEN_UPDATES has passed since the failed attempt began.
C11_TimestampIsLastAttempt ==
    [][\A s \in Stations :
          /\ (throttle'[s] # throttle[s])
                => /\ requests'[s] = requests[s] + 1
                   /\ throttle'[s] = now
                   /\ now' = now
          /\ (requests'[s] # requests[s]) => throttle'[s] = now
          /\ (ev'.op \in {"get_failed", "body"} /\ ev'.station = s)
                => throttle'[s] = throttle[s]
          /\ (ev.raised /\ ev.station = s /\ SensorCalls(s))
                => (requests'[s] = requests[s] + 1
                      <=> now - throttle[s] > MIN_TIME_BETWEEN_UPDATES)]_vars

\* C11 witness: a sensor's attempt to refresh a stored record has just failed,
\* the timestamp is the time that attempt began (later than the fetch that
\* stored the record), and a call made now by that sensor is suppressed.
C11_Witness ==
    /\ ev.op \in {"get_failed", "body"}
    /\ ev.raised
    /\ ev.who \in registered
    /\ sfetch[ev.who].stage = "none"
    /\ Truthy(data[ev.station])
    /\ requests[ev.station] = 2
    /\ throttle[ev.station] > 0
    /\ ~ThrottleAllows(throttle[ev.station], now)

====
